---- MODULE Spec2Model ----
(***************************************************************************)
(* Model of the price polling engine of catboard-app:                      *)
(*   src/src-tauri/src/runner.rs  run_loop (the polling loop)              *)
(*   src/src-tauri/src/lib.rs     run (the two watch channels, the tasks)  *)
(*                                                                         *)
(* run_loop is an async task.  Its steps are cut at its await points: the  *)
(* code between two awaits runs without interleaving, so one action holds  *)
(* everything from one await to the next.  The environment (the menu       *)
(* handler writing the Selection Channel, teardown dropping channel ends)  *)
(* interleaves freely with these steps.                                    *)
(*                                                                         *)
(* Strings are sequences of one-character strings, so that format!'s       *)
(* concatenation is computed.  Option<f64> is a sequence of length 0 or 1. *)
(* Durations are whole seconds.                                            *)
(***************************************************************************)
EXTENDS Integers, Sequences, FiniteSets

VARIABLES
    \* ---- run_loop's locals and position
    pc,             \* "start" | "top" | "fetching" | "pollwait" | "backoff" | "returned" | "panicked"
    tokens,         \* let mut tokens                      runner.rs:18
    retry_count,    \* let mut retry_count                 runner.rs:19
    address,        \* let address (the publication key)   runner.rs:42, 74
    call,           \* the adapter call in flight: [fn, args]   runner.rs:43, 77
    waited,         \* seconds of the sleep last entered   runner.rs:69, 103, 110
    result,         \* what run_loop returned: "none" | "RecvError" | "SendError"
    \* ---- the Selection Channel, watch::channel<Vec<Token>>   lib.rs:78
    selection,      \* the value the channel holds
    tokVersion,     \* the channel's version, bumped by every send
    rxVersion,      \* the version token_receiver has marked as seen
    tokenSenderAlive,
    \* ---- the Publication Channel, watch::channel<HashMap<..>>   lib.rs:84
    prices,         \* the value the channel holds: key -> PriceInfo
    priceVersion,   \* the channel's version, bumped by every send it takes
    priceRxAlive,   \* some receiver of the channel is alive
    \* ---- the price effect task   lib.rs:126
    obsVersion,     \* the version its price_receiver has marked as seen
    title,          \* the PriceInfo last put in the tray title, as a sequence of length 0 or 1
    obsWoke,        \* what its last iteration woke on: "none" | "news" | "nothing"
    \* ---- history of the run (observations, not program state)
    fetchCount,     \* adapter calls begun
    sendCount,      \* price_sender.send calls made
    waitCount,      \* sleeps entered
    published,      \* keys of every entry sent successfully so far
    outcomes,       \* outcomes of the last three fetches, oldest first: "ok" | "err" | "none"
    failsSince,     \* failed fetches since the last success or adoption of a newly written Selection
    adoptedVersion, \* version of the Selection Channel at the last adoption of a newly written Selection
    unseenWriteAt,  \* pc at the latest write run_loop has not yet looked at, or "none"
    adoptedWriteAt  \* unseenWriteAt as it was when the current cycle began

vars == <<pc, tokens, retry_count, address, call, waited, result,
          selection, tokVersion, rxVersion, tokenSenderAlive,
          prices, priceVersion, priceRxAlive,
          obsVersion, title, obsWoke,
          fetchCount, sendCount, waitCount, published, outcomes, failsSince,
          adoptedVersion, unseenWriteAt, adoptedWriteAt>>

obsVars == <<obsVersion, title, obsWoke>>
loopVars == <<pc, tokens, retry_count, address, call, waited, result>>
historyVars == <<fetchCount, sendCount, waitCount, published, outcomes, failsSince,
                 adoptedVersion, unseenWriteAt, adoptedWriteAt>>

----------------------------------------------------------------------------
\* Bounds of the exploration.

\* Cycles explored once the Selection Channel has been written, and the
\* latest cycle at which the environment still writes it.
MaxCycles == 4
\* Cycles explored while the Selection Channel has never been written.
MaxOutage == 63
\* Writes to the Selection Channel.
MaxWrites == 1

----------------------------------------------------------------------------
\* Program constants.

POLL_INTERVAL == 5
BaseBackoffSecs == 30
MaxBackoffSecs == 300
\* Duration keeps its seconds in a u64: mul_f32 panics from 2^64 seconds on.
DurationSecsBits == 64

----------------------------------------------------------------------------
\* Data.

SOL == [symbol |-> "SOL", address |-> <<"S", "o", "1">>]
JLP == [symbol |-> "JLP", address |-> <<"2", "7", "G">>]
Tokens == {SOL, JLP}

\* Selections the menu handler can write: one instrument, or a (base, quote) pair.
Selections == {<<t>> : t \in Tokens} \cup
              {<<b, q>> : <<b, q>> \in {p \in Tokens \X Tokens : p[1] # p[2]}}

Prices == {150, 200}

NoCall == [fn |-> "none", args |-> <<>>]

RECURSIVE Pow2(_)
Pow2(n) == IF n = 0 THEN 1 ELSE 2 * Pow2(n - 1)

Min(a, b) == IF a <= b THEN a ELSE b

\* Largest value the model's integers carry for a duration before the cap.
HugeSecs == Pow2(30)

----------------------------------------------------------------------------
\* Pure parts of run_loop.

KeyOf_QuoteFirst(toks) ==
    IF Len(toks) = 2
    THEN toks[2].address \o <<"_">> \o toks[1].address
    ELSE toks[1].address

\* The publication key: tokens[0].address, or format!("{}_{}", base, quote).
KeyOf(toks) ==
    IF Len(toks) = 2
    THEN toks[1].address \o <<"_">> \o toks[2].address
    ELSE toks[1].address

AdapterCall_AlwaysSingle(toks) ==
    [fn |-> "fetch_price", args |-> <<toks[1].address>>]

\* The adapter and the arguments it is called with.
AdapterCall(toks) ==
    IF Len(toks) = 2
    THEN [fn |-> "fetch_pair_price", args |-> <<toks[1].address, toks[2].address>>]
    ELSE [fn |-> "fetch_price", args |-> <<toks[1].address>>]

\* token_receiver.has_changed(): the channel's version differs from the one
\* this receiver has marked as seen.
has_changed == tokVersion # rxVersion

RetryOnChange_Keep(rc) == rc

\* retry_count = 0 on a Selection change.
RetryOnChange(rc) == 0

RetryOnSuccess_Keep(rc) == rc

\* retry_count = 0 on success.
RetryOnSuccess(rc) == 0

RetryOnFailure_NoIncrement(rc) == rc

\* retry_count += 1 on failure.
RetryOnFailure(rc) == rc + 1

\* 2f32.powi(retry_count - 1): a power of two, kept as its exponent.
PowiExponent(rc) == rc - 1

\* Duration::from_secs(30).mul_f32(2^e) panics when 30 * 2^e seconds do not
\* fit a Duration, that is when 30 * 2^e >= 2^64 (or the f32 is infinite,
\* which needs a still larger e).  30 * 2^e >= 2^64 iff 30 >= 2^(64 - e).
MulF32Panics(e) ==
    \/ e >= DurationSecsBits
    \/ /\ DurationSecsBits - e <= 30
       /\ BaseBackoffSecs >= Pow2(DurationSecsBits - e)

\* 30 * 2^e seconds, exact while below HugeSecs and HugeSecs from there on
\* (every such value is cut to MaxBackoffSecs by the min that follows).
RECURSIVE MulPow2(_, _)
MulPow2(secs, e) ==
    IF e <= 0 THEN secs
    ELSE IF 2 * secs >= HugeSecs THEN HugeSecs
    ELSE MulPow2(2 * secs, e - 1)

\* backoff.min(Duration::from_secs(300)), for a backoff that did not panic.
BackoffSecs(rc) == Min(MulPow2(BaseBackoffSecs, PowiExponent(rc)), MaxBackoffSecs)

PriceMap_Merged(key, price, rc) ==
    [k \in DOMAIN prices \cup {key} |->
        IF k = key THEN [price |-> price, retry_count |-> rc] ELSE prices[k]]

\* The one-entry map a cycle builds.
PriceMap(key, price, rc) ==
    [k \in {key} |-> [price |-> price, retry_count |-> rc]]

PublishKey_FromChannel == KeyOf(selection)

\* The key the entry is inserted under: the local computed before the fetch.
PublishKey == address

SendFails_Ignored == FALSE

\* price_sender.send(..)? fails when every receiver is gone.
SendFails == ~priceRxAlive

\* price_sender.send(price_map): the channel takes the map unless closed.
Send(map) ==
    /\ sendCount' = sendCount + 1
    /\ prices' = IF priceRxAlive THEN map ELSE prices
    /\ priceVersion' = IF priceRxAlive THEN priceVersion + 1 ELSE priceVersion
    /\ published' = IF priceRxAlive THEN published \cup DOMAIN map ELSE published

PublishSuccess(map) == Send(map)

PublishFailure_Skipped(map) == UNCHANGED <<prices, priceVersion, sendCount, published>>

PublishFailure(map) == Send(map)

----------------------------------------------------------------------------
\* The state after lib.rs's setup has built both channels and spawned the tasks.

Init ==
    /\ pc = "start"
    /\ tokens = <<>>
    /\ retry_count = 0
    /\ address = <<>>
    /\ call = NoCall
    /\ waited = 0
    /\ result = "none"
    /\ selection = <<SOL>>
    /\ tokVersion = 0
    /\ rxVersion = 0
    /\ tokenSenderAlive = TRUE
    /\ prices = [k \in {} |-> 0]
    /\ priceVersion = 0
    /\ priceRxAlive = TRUE
    /\ obsVersion = 0
    /\ title = <<>>
    /\ obsWoke = "none"
    /\ fetchCount = 0
    /\ sendCount = 0
    /\ waitCount = 0
    /\ published = {}
    /\ outcomes = <<"none", "none", "none">>
    /\ failsSince = 0
    /\ adoptedVersion = 0
    /\ unseenWriteAt = "none"
    /\ adoptedWriteAt = "none"

\* run_loop's prologue: tokens = token_receiver.borrow().clone(); retry_count = 0.
\* borrow() does not mark the value as seen.
Start ==
    /\ pc = "start"
    /\ tokens' = selection
    /\ retry_count' = 0
    /\ pc' = "top"
    /\ UNCHANGED <<address, call, waited, result,
                   selection, tokVersion, rxVersion, tokenSenderAlive,
                   prices, priceVersion, priceRxAlive, obsVars, historyVars>>

\* Long runs are explored for a Selection Channel never written and a price
\* effect task that has not run yet; every other run for MaxCycles cycles.
CycleBound == IF tokVersion = 0 /\ obsWoke = "none" THEN MaxOutage ELSE MaxCycles

\* Top of the loop up to the adapter call's await: the change check, the key,
\* the call.  has_changed()? returns the error of a closed channel.
BeginCycle ==
    /\ pc = "top"
    /\ fetchCount < CycleBound
    /\ IF ~tokenSenderAlive
       THEN /\ pc' = "returned"
            /\ result' = "RecvError"
            /\ UNCHANGED <<tokens, retry_count, address, call, waited,
                           fetchCount, failsSince, adoptedVersion, unseenWriteAt,
                           adoptedWriteAt>>
       ELSE LET toks == IF has_changed THEN selection ELSE tokens
                rc   == IF has_changed THEN RetryOnChange(retry_count) ELSE retry_count
            IN  /\ tokens' = toks
                /\ retry_count' = rc
                /\ address' = KeyOf(toks)
                /\ call' = AdapterCall(toks)
                /\ pc' = "fetching"
                /\ fetchCount' = fetchCount + 1
                /\ failsSince' = IF tokVersion # adoptedVersion THEN 0 ELSE failsSince
                /\ adoptedVersion' = tokVersion
                /\ unseenWriteAt' = "none"
                /\ adoptedWriteAt' = unseenWriteAt
                /\ UNCHANGED <<waited, result>>
    /\ UNCHANGED <<selection, tokVersion, rxVersion, tokenSenderAlive,
                   prices, priceVersion, priceRxAlive, obsVars,
                   sendCount, waitCount, published, outcomes>>

\* The adapter returns Ok(price): reset, insert, send, then sleep(POLL_INTERVAL).
FetchOk(price) ==
    /\ pc = "fetching"
    /\ retry_count' = RetryOnSuccess(retry_count)
    /\ PublishSuccess(PriceMap(PublishKey, <<price>>, retry_count'))
    /\ IF SendFails
       THEN pc' = "returned" /\ result' = "SendError" /\ UNCHANGED <<waited, waitCount>>
       ELSE /\ pc' = "pollwait" /\ waited' = POLL_INTERVAL /\ UNCHANGED result
            /\ waitCount' = waitCount + 1
    /\ outcomes' = <<outcomes[2], outcomes[3], "ok">>
    /\ failsSince' = 0
    /\ UNCHANGED <<tokens, address, call,
                   selection, tokVersion, rxVersion, tokenSenderAlive,
                   priceRxAlive, obsVars, fetchCount, adoptedVersion, unseenWriteAt,
                   adoptedWriteAt>>

\* The adapter returns Err: count, insert, send, compute the backoff, sleep.
FetchErr ==
    /\ pc = "fetching"
    /\ retry_count' = RetryOnFailure(retry_count)
    /\ PublishFailure(PriceMap(PublishKey, <<>>, retry_count'))
    /\ IF SendFails
       THEN pc' = "returned" /\ result' = "SendError" /\ UNCHANGED <<waited, waitCount>>
       ELSE IF MulF32Panics(PowiExponent(retry_count'))
       THEN pc' = "panicked" /\ UNCHANGED <<waited, waitCount, result>>
       ELSE /\ pc' = "backoff" /\ waited' = BackoffSecs(retry_count') /\ UNCHANGED result
            /\ waitCount' = waitCount + 1
    /\ outcomes' = <<outcomes[2], outcomes[3], "err">>
    /\ failsSince' = failsSince + 1
    /\ UNCHANGED <<tokens, address, call,
                   selection, tokVersion, rxVersion, tokenSenderAlive,
                   priceRxAlive, obsVars, fetchCount, adoptedVersion, unseenWriteAt,
                   adoptedWriteAt>>

AfterBackoff_FallThrough == "pollwait"

\* continue: after the backoff sleep the loop goes back to its top, skipping
\* the sleep(POLL_INTERVAL) at the end of the body.
AfterBackoff == "top"

\* The sleep ends: the backoff sleep is followed by continue, the poll sleep is
\* the last statement of the body.
Wake ==
    /\ pc \in {"pollwait", "backoff"}
    /\ LET next == IF pc = "backoff" THEN AfterBackoff ELSE "top"
       IN  /\ pc' = next
           /\ IF next = "pollwait"
              THEN waited' = POLL_INTERVAL /\ waitCount' = waitCount + 1
              ELSE UNCHANGED <<waited, waitCount>>
    /\ UNCHANGED <<tokens, retry_count, address, call, result,
                   selection, tokVersion, rxVersion, tokenSenderAlive,
                   prices, priceVersion, priceRxAlive, obsVars,
                   fetchCount, sendCount, published, outcomes, failsSince,
                   adoptedVersion, unseenWriteAt, adoptedWriteAt>>

\* The menu handler's task writes a Selection: the channel takes the value and
\* bumps its version.
SelectionWrite(sel) ==
    /\ tokenSenderAlive
    /\ tokVersion < MaxWrites
    /\ fetchCount < MaxCycles
    /\ selection' = sel
    /\ tokVersion' = tokVersion + 1
    /\ unseenWriteAt' = pc
    /\ UNCHANGED <<loopVars, rxVersion, tokenSenderAlive,
                   prices, priceVersion, priceRxAlive, obsVars,
                   fetchCount, sendCount, waitCount, published, outcomes, failsSince,
                   adoptedVersion, adoptedWriteAt>>

\* Teardown drops the observer task, the holder of the price receivers.
DropPriceReceivers ==
    /\ priceRxAlive
    /\ priceRxAlive' = FALSE
    /\ UNCHANGED <<loopVars, selection, tokVersion, rxVersion, tokenSenderAlive,
                   prices, priceVersion, obsVars, historyVars>>

\* Teardown drops AppState, the holder of token_sender.
DropTokenSender ==
    /\ tokenSenderAlive
    /\ tokenSenderAlive' = FALSE
    /\ UNCHANGED <<loopVars, selection, tokVersion, rxVersion,
                   prices, priceVersion, priceRxAlive, obsVars, historyVars>>

\* selected_tokens, cloned from AppState once during setup (the default [SOL])
\* and moved into the price effect task.
selected_tokens == <<SOL>>

\* The key the price effect task looks up: built from selected_tokens.
ObserverKey ==
    IF Len(selected_tokens) = 2
    THEN selected_tokens[1].address \o <<"_">> \o selected_tokens[2].address
    ELSE selected_tokens[1].address

\* price_sender lives in run_loop's future: it is dropped when run_loop returns
\* or unwinds.
PriceSenderDropped == pc \in {"returned", "panicked"}

\* One iteration of the price effect task.  changed().await resolves with Ok on
\* a value not yet seen and with Err once the sender is dropped; the result is
\* discarded (let _ =).  Then borrow_and_update, the lookup under the task's
\* key, and the tray title when the entry is there.  (The task is explored
\* during the first MaxCycles cycles and after run_loop has stopped.)
ObserverIterate ==
    /\ priceRxAlive
    /\ priceVersion # obsVersion \/ PriceSenderDropped
    /\ fetchCount <= MaxCycles \/ PriceSenderDropped
    /\ obsVersion' = priceVersion
    /\ title' = IF ObserverKey \in DOMAIN prices THEN <<prices[ObserverKey]>> ELSE title
    /\ obsWoke' = IF priceVersion # obsVersion THEN "news" ELSE "nothing"
    /\ UNCHANGED <<loopVars, selection, tokVersion, rxVersion, tokenSenderAlive,
                   prices, priceVersion, priceRxAlive, historyVars>>

Next ==
    \/ Start
    \/ BeginCycle
    \/ \E price \in Prices : FetchOk(price)
    \/ FetchErr
    \/ Wake
    \/ \E sel \in Selections : SelectionWrite(sel)
    \/ DropPriceReceivers
    \/ DropTokenSender
    \/ ObserverIterate

Spec == Init /\ [][Next]_vars

----------------------------------------------------------------------------
\* Properties of run_loop.

InWait == pc \in {"pollwait", "backoff"}

\* min(30s * 2^(i-1), 300s), the wait the backoff schedule gives failure i.
ScheduledWait(i) == IF i >= 5 THEN 300 ELSE Min(30 * Pow2(i - 1), 300)

\* The entry the finished cycle sent.
LastEntry == prices[address]

\* C1: the wait entered after the i-th consecutive failure (no success and no
\* newly written Selection in between) is min(30s * 2^(i-1), 300s).
C1_BackoffSchedule ==
    pc = "backoff" => waited = ScheduledWait(failsSince)

\* C2: run_loop stops only on an error from a channel operation; no number of
\* consecutive fetch failures, and no backoff computation, ends it.
C2_StopsOnlyOnChannelError ==
    pc \in {"returned", "panicked"} => result \in {"RecvError", "SendError"}

\* C3: the retry_count of the entry just published is the number of consecutive
\* failed fetches since the last success or the last newly written Selection,
\* and the price is present exactly when that number is 0.
C3_CountIsConsecutiveFailures ==
    InWait => /\ LastEntry.retry_count = failsSince
              /\ (LastEntry.price # <<>>) <=> (failsSince = 0)

\* C4: the first failure after a success is published with retry_count 1 and
\* followed by a wait of 30 s, whatever came before the success.
C4_ResetOnSuccess ==
    (pc = "backoff" /\ outcomes[2] = "ok" /\ outcomes[3] = "err")
        => /\ LastEntry = [price |-> <<>>, retry_count |-> 1]
           /\ waited = 30

C4_Witness ==
    /\ pc = "backoff"
    /\ outcomes = <<"err", "ok", "err">>
    /\ waited = 30

\* C5 as stated: a write to the Selection Channel during a backoff wait resets
\* retry_count to 0 at once.
C5_ImmediateReset ==
    (pc = "backoff" /\ unseenWriteAt = "backoff") => retry_count = 0

\* C5 as amended: the reset happens at the top of the first cycle after the
\* wait, before the fetch for the written Selection begins; that fetch starts
\* from retry_count 0 and its result is published with count 0 (success) or 1
\* (failure), never a count accumulated before the write.
C5_ResetAtNextCycle ==
    adoptedWriteAt = "backoff"
        => /\ pc = "fetching" => retry_count = 0
           /\ InWait => \/ LastEntry.retry_count = 0 /\ outcomes[3] = "ok"
                        \/ LastEntry.retry_count = 1 /\ outcomes[3] = "err"

C5_Witness ==
    /\ adoptedWriteAt = "backoff"
    /\ pc = "backoff"
    /\ outcomes = <<"err", "err", "err">>
    /\ KeyOf(tokens) = address
    /\ LastEntry.retry_count = 1

\* C6: every fetch attempt is followed by exactly one send before the wait and
\* before the next attempt: outside a fetch in flight, sends equal attempts;
\* during it, the sends are one behind.
C6_OneSendPerFetch ==
    /\ pc = "fetching" => sendCount = fetchCount - 1
    /\ pc # "fetching" => sendCount = fetchCount
    /\ InWait => DOMAIN prices = {address}

C6_Witness ==
    /\ pc = "backoff"
    /\ outcomes = <<"ok", "err", "err">>
    /\ fetchCount = 3
    /\ sendCount = 3

\* C7: a key once published stays in every later value of the Publication
\* Channel.
C7_EntriesNeverDeleted ==
    published \subseteq DOMAIN prices

\* C8: the key is the instrument's address for a Selection of one, and
\* base.address + "_" + quote.address in the Selection's order for a Selection
\* of two; swapping distinct base and quote changes the key; the published map
\* has the pair's result under base.address + "_" + quote.address.
C8_KeyCorrectness ==
    /\ (pc \in {"fetching", "pollwait", "backoff"} /\ Len(tokens) = 1)
           => address = tokens[1].address
    /\ (pc \in {"fetching", "pollwait", "backoff"} /\ Len(tokens) = 2)
           => address = tokens[1].address \o <<"_">> \o tokens[2].address
    /\ \A a \in Tokens, b \in Tokens :
           a.address # b.address => KeyOf(<<a, b>>) # KeyOf(<<b, a>>)
    /\ (InWait /\ Len(tokens) = 2)
           => LET key == tokens[1].address \o <<"_">> \o tokens[2].address
              IN  /\ key \in DOMAIN prices
                  /\ prices[key].retry_count = retry_count

C8_Witness ==
    /\ pc = "pollwait"
    /\ tokens = <<JLP, SOL>>
    /\ DOMAIN prices = {<<"2", "7", "G", "_", "S", "o", "1">>}

\* The addresses handed to the adapter, joined the way a key is.
KeyOfArgs(args) ==
    IF Len(args) = 2 THEN args[1] \o <<"_">> \o args[2] ELSE args[1]

\* C9: the entry published after a fetch lies under the key of the Selection
\* whose addresses went to the adapter, also when the Selection Channel was
\* written during the fetch: never under the newer Selection's key.
C9_NoMisattribution ==
    InWait => /\ DOMAIN prices = {KeyOfArgs(call.args)}
              /\ KeyOf(selection) # KeyOfArgs(call.args)
                     => KeyOf(selection) \notin DOMAIN prices

C9_Witness ==
    /\ InWait
    /\ unseenWriteAt = "fetching"
    /\ KeyOf(selection) # KeyOfArgs(call.args)
    /\ DOMAIN prices = {KeyOfArgs(call.args)}

\* C10: a failed send makes run_loop return the error at once, with no further
\* fetch, publication or wait; a fetch whose result is sent returns nothing to
\* the caller, success or failure.
C10_SendFailureFatal ==
    [][ /\ pc = "returned" => UNCHANGED <<loopVars, prices, fetchCount, sendCount>>
        /\ (pc = "fetching" /\ pc' # "fetching")
              => IF ~priceRxAlive
                 THEN pc' = "returned" /\ result' = "SendError" /\ prices' = prices
                 ELSE pc' # "returned" /\ result' = "none"
      ]_vars

C10_Witness ==
    /\ pc = "returned"
    /\ result = "SendError"
    /\ outcomes[3] = "err"
    /\ fetchCount >= 2

\* C11: the Publication Channel starts with an empty map, and in every entry
\* run_loop has published the price is present exactly when retry_count is 0
\* (a failure carries a count of at least 1).
C11_PricePresentIffCountZero ==
    /\ sendCount = 0 => DOMAIN prices = {}
    /\ \A k \in DOMAIN prices :
           /\ prices[k].retry_count >= 0
           /\ (prices[k].price # <<>>) <=> (prices[k].retry_count = 0)

C11_Witness ==
    /\ pc = "backoff"
    /\ outcomes = <<"ok", "err", "err">>
    /\ LastEntry = [price |-> <<>>, retry_count |-> 2]

\* C12: a cycle that starts with no write to the Selection Channel since the
\* previous cycle's check leaves retry_count as it was: each write causes at
\* most one reset.
C12_OneResetPerWrite ==
    [][ (pc = "top" /\ pc' = "fetching" /\ unseenWriteAt = "none")
            => retry_count' = retry_count ]_vars

\* C14: the adapter called in a cycle is fetch_price with the instrument's
\* address for a Selection of one and fetch_pair_price with (base, quote) in
\* Selection order for a Selection of two; one call per cycle; the Selection is
\* the one the channel held at the top of the cycle.
C14_DispatchByArity ==
    pc = "fetching"
        => /\ Len(tokens) = 1 =>
                 call = [fn |-> "fetch_price", args |-> <<tokens[1].address>>]
           /\ Len(tokens) = 2 =>
                 call = [fn |-> "fetch_pair_price",
                         args |-> <<tokens[1].address, tokens[2].address>>]
           /\ fetchCount = sendCount + 1
           /\ unseenWriteAt = "none" => tokens = selection

C14_Witness ==
    /\ pc = "fetching"
    /\ adoptedWriteAt = "pollwait"
    /\ tokens = <<JLP, SOL>>
    /\ call = [fn |-> "fetch_pair_price",
               args |-> <<<<"2", "7", "G">>, <<"S", "o", "1">>>>]

\* C15: every map run_loop sends has exactly one entry, under the key of the
\* Selection adopted for that cycle; once something is published the channel
\* holds exactly one key, and after a Selection change and one completed cycle
\* it is the new Selection's key.
C15_SingleEntry ==
    /\ published # {} => Cardinality(DOMAIN prices) = 1
    /\ InWait => DOMAIN prices = {KeyOf(tokens)}
    /\ (InWait /\ unseenWriteAt = "none") => DOMAIN prices = {KeyOf(selection)}

C15_Witness ==
    /\ InWait
    /\ adoptedWriteAt # "none"
    /\ unseenWriteAt = "none"
    /\ Cardinality(published) = 2
    /\ DOMAIN prices = {KeyOf(selection)}

\* C13: one wait per cycle, chosen by the outcome: the poll interval of 5 s
\* after a success, the computed backoff (and no poll interval) after a
\* failure; no cycle reaches the next fetch without its wait.
C13_OneWaitPerCycle ==
    /\ pc = "pollwait" => outcomes[3] = "ok" /\ waited = 5
    /\ pc = "backoff" => /\ outcomes[3] = "err"
                         /\ waited = ScheduledWait(LastEntry.retry_count)
    /\ pc \in {"top", "pollwait", "backoff"} => waitCount = fetchCount
    /\ pc = "fetching" => waitCount = fetchCount - 1

C13_Witness ==
    /\ pc = "top"
    /\ outcomes = <<"ok", "err", "err">>
    /\ waited = 60
    /\ waitCount = 3
    /\ fetchCount = 3

\* C16: every iteration of the price effect task follows a publication it had
\* not yet seen, also after run_loop has stopped and dropped price_sender: the
\* task never iterates on nothing.
C16_IterationNeedsPublication ==
    obsWoke # "nothing"

\* C17: whenever run_loop has published a result for the Selection the
\* Selection Channel currently holds, the price effect task's lookup key is
\* that Selection's key, and once the task has seen the publication the tray
\* title holds that entry.
C17_ObserverShowsSelection ==
    (InWait /\ address = KeyOf(selection))
        => /\ ObserverKey = KeyOf(selection)
           /\ (obsVersion = priceVersion /\ obsWoke = "news") => title = <<LastEntry>>

====
